---------------------------- MODULE Spec2Model ----------------------------
(***************************************************************************)
(* A model of the Stencil language-service plugin (src/src/ts-util/type.ts) *)
(* as a state machine: the two result caches are the state, the five       *)
(* intercepted language-service operations are the actions, and the        *)
(* metadata extractor, the category lookup and the sort-key function are   *)
(* operators computed as the code computes them.                           *)
(*                                                                         *)
(* JavaScript strings are sequences of one-character strings; a name that  *)
(* the model handles as an atom is converted with Chars where the code     *)
(* looks inside it (indexOf, template strings, string comparison).        *)
(***************************************************************************)
EXTENDS Integers, Sequences, FiniteSets, TLC

(***************************************************************************)
(* JavaScript values that stand in for "no value".                         *)
(***************************************************************************)
\* `false`, as produced by  a && b && c.text  when a test fails
JsFalse == "#false"
\* `undefined` where a string was expected
JsUndefined == "#undefined"
\* `undefined` where an object was expected
Undefined == [type |-> "undefined"]

IsUndefined(x) == x = Undefined

(***************************************************************************)
(* Strings.                                                                *)
(***************************************************************************)
LowerCase ==
    << "a", "b", "c", "d", "e", "f", "g", "h", "i", "j", "k", "l", "m",
       "n", "o", "p", "q", "r", "s", "t", "u", "v", "w", "x", "y", "z" >>

UpperCase ==
    << "A", "B", "C", "D", "E", "F", "G", "H", "I", "J", "K", "L", "M",
       "N", "O", "P", "Q", "R", "S", "T", "U", "V", "W", "X", "Y", "Z" >>

Includes(seq, x) == \E i \in DOMAIN seq : seq[i] = x

\* Array.prototype.indexOf: the first index (from 0) of x, or -1
ArrayIndexOf(seq, x) ==
    IF Includes(seq, x)
    THEN (CHOOSE i \in DOMAIN seq : seq[i] = x /\ \A j \in 1..(i - 1) : seq[j] # x) - 1
    ELSE -1

\* the UTF-16 code unit of a character
CharCode(c) ==
    CASE c = "\"" -> 34
      [] c = "'" -> 39
      [] c = "-" -> 45
      [] c = "0" -> 48
      [] c = " " -> 32
      [] c = "@" -> 64
      [] Includes(UpperCase, c) -> 65 + ArrayIndexOf(UpperCase, c)
      [] Includes(LowerCase, c) -> 97 + ArrayIndexOf(LowerCase, c)

\* the characters of the names the model uses
Chars(s) ==
    CASE s = "render" -> <<"r", "e", "n", "d", "e", "r">>
      [] s = "hostData" -> <<"h", "o", "s", "t", "D", "a", "t", "a">>
      [] s = "componentWillLoad" -> <<"c", "o", "m", "p", "o", "n", "e", "n", "t", "W", "i", "l", "l", "L", "o", "a", "d">>
      [] s = "componentDidLoad" -> <<"c", "o", "m", "p", "o", "n", "e", "n", "t", "D", "i", "d", "L", "o", "a", "d">>
      [] s = "componentWillUpdate" -> <<"c", "o", "m", "p", "o", "n", "e", "n", "t", "W", "i", "l", "l", "U", "p", "d", "a", "t", "e">>
      [] s = "componentDidUpdate" -> <<"c", "o", "m", "p", "o", "n", "e", "n", "t", "D", "i", "d", "U", "p", "d", "a", "t", "e">>
      [] s = "componentDidUnload" -> <<"c", "o", "m", "p", "o", "n", "e", "n", "t", "D", "i", "d", "U", "n", "l", "o", "a", "d">>
      [] s = "count" -> <<"c", "o", "u", "n", "t">>
      [] s = "label" -> <<"l", "a", "b", "e", "l">>
      [] s = "name" -> <<"n", "a", "m", "e">>
      [] s = "el" -> <<"e", "l">>
      [] s = "onNameChange" -> <<"o", "n", "N", "a", "m", "e", "C", "h", "a", "n", "g", "e">>
      [] s = "onKey" -> <<"o", "n", "K", "e", "y">>
      [] s = "changed" -> <<"c", "h", "a", "n", "g", "e", "d">>
      [] s = "load" -> <<"l", "o", "a", "d">>
      [] s = "undefined" -> <<"u", "n", "d", "e", "f", "i", "n", "e", "d">>
      [] s = "click" -> <<"c", "l", "i", "c", "k">>
      [] s = "keydown" -> <<"k", "e", "y", "d", "o", "w", "n">>
      [] s = "nameChanged" -> <<"n", "a", "m", "e", "C", "h", "a", "n", "g", "e", "d">>
      [] s = "toString" -> <<"t", "o", "S", "t", "r", "i", "n", "g">>
      [] s = "cmp.tsx" -> <<"c", "m", "p", ".", "t", "s", "x">>
      [] s = "util.ts" -> <<"u", "t", "i", "l", ".", "t", "s">>
      [] s = "attr" -> <<"a", "t", "t", "r">>
      [] s = "mutable" -> <<"m", "u", "t", "a", "b", "l", "e">>
      [] s = "class" -> <<"c", "l", "a", "s", "s">>
      [] s = "style" -> <<"s", "t", "y", "l", "e">>
      [] s = "slot" -> <<"s", "l", "o", "t">>
      [] s = "aria-label" -> <<"a", "r", "i", "a", "-", "l", "a", "b", "e", "l">>

\* a < b as JavaScript compares strings: by code unit, a proper prefix first
StringLess(a, b) ==
    \E i \in 1..Len(b) :
        /\ \A j \in 1..(i - 1) : j <= Len(a) /\ a[j] = b[j]
        /\ \/ i = Len(a) + 1
           \/ i <= Len(a) /\ CharCode(a[i]) < CharCode(b[i])

(***************************************************************************)
(* StencilConstants.                                                       *)
(***************************************************************************)
ComponentBuiltinMethods == << "render", "hostData" >>

ComponentLifecycleMethods ==
    << "componentWillLoad", "componentDidLoad", "componentWillUpdate",
       "componentDidUpdate", "componentDidUnload" >>

(***************************************************************************)
(* The declaration tree, as far as the plugin reads it.                    *)
(*   name node   [kind, text]; NoNode where the tree has none              *)
(*   decorator   [callee, arguments]: callee is the identifier text of a   *)
(*               call-expression decorator, JsFalse for a decorator that   *)
(*               is not a call of an identifier                            *)
(*   member      [name, kind, decorators]; decorators = <<>> stands for    *)
(*               member.decorators being undefined                         *)
(*   class       [name, decorators, members]                               *)
(* A source file lists its class declarations in the order visit meets     *)
(* them.                                                                   *)
(***************************************************************************)
NoNode == [kind |-> "undefined", text |-> JsUndefined]

Identifier(text) == [kind |-> "Identifier", text |-> text]

StringLiteral(text) == [kind |-> "StringLiteral", text |-> text]

Call(callee, arguments) == [callee |-> callee, arguments |-> arguments]

\* the test repeated at lines 172, 181, 250 and 255: a call of the identifier `name`
IsCallOf(decorator, name) == decorator.callee = name

hasDecoratorNamed(node, name) ==
    \E i \in DOMAIN node.decorators : IsCallOf(node.decorators[i], name)

toName(member) ==
    IF member.name.kind = "undefined" THEN JsUndefined
    ELSE IF member.name.kind = "Identifier" THEN member.name.text
    ELSE JsFalse

isComponentClass(node) ==
    \E i \in DOMAIN node.decorators : IsCallOf(node.decorators[i], "Component")


(***************************************************************************)
(* DocumentMeta and gatherDocumentMeta.                                    *)
(***************************************************************************)
EmptyMeta ==
    [ className |-> "#null",
      internalProperties |-> <<>>,
      elements |-> <<>>,
      states |-> <<>>,
      propsConnect |-> <<>>,
      propsContext |-> <<>>,
      props |-> <<>>,
      watched |-> <<>>,
      events |-> <<>>,
      lifecycle |-> <<>>,
      listeners |-> <<>>,
      methods |-> <<>>,
      internalMethods |-> <<>> ]

\* member.decorators.find(... 'Watch'): the first Watch decorator
FirstDecorator(member, name) ==
    member.decorators[CHOOSE i \in DOMAIN member.decorators :
        /\ IsCallOf(member.decorators[i], name)
        /\ \A j \in 1..(i - 1) : ~IsCallOf(member.decorators[j], name)]

\* ts.isStringLiteral(arguments[0]) && arguments[0].text, where arguments[0] exists
\* (with no argument the call throws, see ArgumentThrows, and no value is produced)
LiteralText(decorator) ==
    IF decorator.arguments = <<>> THEN JsUndefined
    ELSE IF decorator.arguments[1].kind = "StringLiteral"
    THEN decorator.arguments[1].text
    ELSE JsFalse

\* ts.isStringLiteral(undefined) reads .kind of undefined: a TypeError
ArgumentThrows(decorator) == decorator.arguments = <<>>

\* lines 236-245: one undecorated member
visitUndecorated(meta, member) ==
    IF Includes(ComponentBuiltinMethods, toName(member)) THEN meta
    ELSE IF Includes(ComponentLifecycleMethods, toName(member))
    THEN [meta EXCEPT !.lifecycle = Append(@, toName(member))]
    ELSE IF member.kind = "PropertyDeclaration"
    THEN [meta EXCEPT !.internalProperties = Append(@, toName(member))]
    ELSE IF member.kind = "MethodDeclaration"
    THEN [meta EXCEPT !.internalMethods = Append(@, toName(member))]
    ELSE meta

\* line 247-248, 259-261: if (hasDecoratorNamed(member, d)) meta[bucket].push(toName(member))
pushIfDecorated(meta, member, decorator, bucket) ==
    IF hasDecoratorNamed(member, decorator)
    THEN [meta EXCEPT ![bucket] = Append(@, toName(member))]
    ELSE meta

\* lines 249-253
pushWatched(meta, member) ==
    IF hasDecoratorNamed(member, "Watch")
    THEN [meta EXCEPT !.watched =
            Append(@, [ prop |-> LiteralText(FirstDecorator(member, "Watch")),
                        handler |-> toName(member) ])]
    ELSE meta

\* lines 254-258
pushListeners(meta, member) ==
    IF hasDecoratorNamed(member, "Listen")
    THEN LET decorators == SelectSeq(member.decorators, LAMBDA dec : IsCallOf(dec, "Listen"))
             events == [i \in DOMAIN decorators |-> LiteralText(decorators[i])]
         IN  [meta EXCEPT !.listeners =
                Append(@, [events |-> events, handler |-> toName(member)])]
    ELSE meta

\* visitDecorated with the member of a Prop annotation pushed to propsConnect
visitDecoratedConnect(meta, member) ==
    LET m1 == pushIfDecorated(meta, member, "Element", "elements")
        m2 == pushIfDecorated(m1, member, "State", "states")
        m3 == pushWatched(m2, member)
        m4 == pushListeners(m3, member)
        m5 == pushIfDecorated(m4, member, "Event", "events")
        m6 == pushIfDecorated(m5, member, "Method", "methods")
    IN  pushIfDecorated(m6, member, "Prop", "propsConnect")

\* lines 246-262: one decorated member, every test made in the order of the code
visitDecorated(meta, member) ==
    LET m1 == pushIfDecorated(meta, member, "Element", "elements")
        m2 == pushIfDecorated(m1, member, "State", "states")
        m3 == pushWatched(m2, member)
        m4 == pushListeners(m3, member)
        m5 == pushIfDecorated(m4, member, "Event", "events")
        m6 == pushIfDecorated(m5, member, "Method", "methods")
    IN  pushIfDecorated(m6, member, "Prop", "props")

\* the decorated member makes visit throw
visitDecoratedThrows(member) ==
    \/ /\ hasDecoratorNamed(member, "Watch")
       /\ ArgumentThrows(FirstDecorator(member, "Watch"))
    \/ \E i \in DOMAIN member.decorators :
          /\ IsCallOf(member.decorators[i], "Listen")
          /\ ArgumentThrows(member.decorators[i])

RECURSIVE forEachMember(_, _, _)
forEachMember(meta, members, decorated) ==
    IF members = <<>> THEN meta
    ELSE forEachMember(IF decorated THEN visitDecorated(meta, Head(members))
                       ELSE visitUndecorated(meta, Head(members)),
                       Tail(members), decorated)

\* lines 230-271 for one class declaration
visit(meta, node) ==
    IF isComponentClass(node)
    THEN LET named == [meta EXCEPT !.className =
                          IF node.name.kind = "Identifier" THEN node.name.text ELSE JsFalse]
             undecorated == SelectSeq(node.members, LAMBDA member : member.decorators = <<>>)
             decorated == SelectSeq(node.members, LAMBDA member : member.decorators # <<>>)
         IN  forEachMember(forEachMember(named, undecorated, FALSE), decorated, TRUE)
    ELSE meta

\* ts.isIdentifier(node.name) reads .kind of undefined for a class without a name
visitThrows(node) ==
    /\ isComponentClass(node)
    /\ \/ node.name.kind = "undefined"
       \/ \E i \in DOMAIN node.members :
             /\ node.members[i].decorators # <<>>
             /\ visitDecoratedThrows(node.members[i])

RECURSIVE visitAll(_, _)
visitAll(meta, classes) ==
    IF classes = <<>> THEN meta
    ELSE visitAll(visit(meta, Head(classes)), Tail(classes))

gatherDocumentMeta(sourceFile) == visitAll(EmptyMeta, sourceFile.classes)

gatherDocumentMetaThrows(sourceFile) ==
    \E i \in DOMAIN sourceFile.classes : visitThrows(sourceFile.classes[i])

(***************************************************************************)
(* getSortText and getCategory.                                            *)
(***************************************************************************)
categories ==
    << "own property", "element", "state", "prop:connect", "prop:context", "prop",
       "watch", "event", "lifecycle", "listen", "method", "local method" >>

letters == LowerCase

\* a sort key without the lifecycle letter of lines 191-194
getSortTextPlain(category, name) ==
    LET i == ArrayIndexOf(categories, category)
    IN  (IF i > -1 THEN <<letters[i + 1]>> ELSE <<"z">>) \o <<"-">> \o Chars(name)

getSortText(category, name) ==
    LET i == ArrayIndexOf(categories, category)
        prefix == IF i > -1 THEN <<letters[i + 1]>> ELSE <<"z">>
        k == ArrayIndexOf(ComponentLifecycleMethods, name)
        prefix2 == IF category = "lifecycle"
                   THEN prefix \o (IF k > -1 THEN <<letters[k + 1]>> ELSE Chars("undefined"))
                   ELSE prefix
    IN  prefix2 \o <<"-">> \o Chars(name)

\* meta.watched.find / meta.listeners.find
FindHandler(seq, name) ==
    seq[CHOOSE i \in DOMAIN seq :
        seq[i].handler = name /\ \A j \in 1..(i - 1) : seq[j].handler # name]

SomeHandler(seq, name) == \E i \in DOMAIN seq : seq[i].handler = name

Found(item, category) == [item |-> item, category |-> category]

getCategory(meta, name) ==
    IF Includes(meta.internalProperties, name) THEN Found(name, "own property")
    ELSE IF Includes(meta.elements, name) THEN Found(name, "element")
    ELSE IF Includes(meta.states, name) THEN Found(name, "state")
    ELSE IF Includes(meta.propsConnect, name) THEN Found(name, "prop:connect")
    ELSE IF Includes(meta.propsContext, name) THEN Found(name, "prop:context")
    ELSE IF Includes(meta.props, name) THEN Found(name, "prop")
    ELSE IF SomeHandler(meta.watched, name) THEN Found(FindHandler(meta.watched, name), "watch")
    ELSE IF Includes(meta.events, name) THEN Found(name, "event")
    ELSE IF Includes(meta.lifecycle, name) THEN Found(name, "lifecycle")
    ELSE IF SomeHandler(meta.listeners, name) THEN Found(FindHandler(meta.listeners, name), "listen")
    ELSE IF Includes(meta.methods, name) THEN Found(name, "method")
    ELSE IF Includes(meta.internalMethods, name) THEN Found(name, "local method")
    ELSE Undefined

(***************************************************************************)
(* Source files.  A source file is [text, classes, nodes]: its text, its   *)
(* class declarations (what gatherDocumentMeta reads) and its nodes with   *)
(* their spans (what findNode reads); a node is                            *)
(* [pos, end, kind, text, parent], text being the identifier text of an    *)
(* identifier, of a declaration's name or of a call's callee, and parent   *)
(* the index of the parent node (0 for the root).                          *)
(***************************************************************************)
Member(name, kind, decorators) == [name |-> name, kind |-> kind, decorators |-> decorators]

Class(name, decorators, members) == [name |-> name, decorators |-> decorators, members |-> members]

\* @Component() class C { @Prop() name; @Watch('name') onNameChange() { this.name } render() {} }
ComponentText ==
    <<
       "@", "C", "o", "m", "p", "o", "n", "e", "n", "t", "(", ")", " ",
       "c", "l", "a", "s", "s", " ", "C", " ", "{", " ", "@", "P", "r",
       "o", "p", "(", ")", " ", "n", "a", "m", "e", ";", " ", "@", "W",
       "a", "t", "c", "h", "(", "'", "n", "a", "m", "e", "'", ")", " ",
       "o", "n", "N", "a", "m", "e", "C", "h", "a", "n", "g", "e", "(",
       ")", " ", "{", " ", "t", "h", "i", "s", ".", "n", "a", "m", "e",
       " ", "}", " ", "r", "e", "n", "d", "e", "r", "(", ")", " ", "{",
       "}", " ", "}" >>

ComponentNodes ==
    << [pos |-> 0, end |-> 94, kind |-> "SourceFile", text |-> JsUndefined, parent |-> 0],
       [pos |-> 0, end |-> 94, kind |-> "ClassDeclaration", text |-> "C", parent |-> 1],
       [pos |-> 23, end |-> 36, kind |-> "PropertyDeclaration", text |-> "name", parent |-> 2],
       [pos |-> 31, end |-> 35, kind |-> "Identifier", text |-> "name", parent |-> 3],
       [pos |-> 37, end |-> 80, kind |-> "MethodDeclaration", text |-> "onNameChange", parent |-> 2],
       [pos |-> 37, end |-> 51, kind |-> "Decorator", text |-> JsUndefined, parent |-> 5],
       [pos |-> 38, end |-> 51, kind |-> "CallExpression", text |-> "Watch", parent |-> 6],
       [pos |-> 44, end |-> 50, kind |-> "StringLiteral", text |-> "name", parent |-> 7],
       [pos |-> 52, end |-> 64, kind |-> "Identifier", text |-> "onNameChange", parent |-> 5],
       [pos |-> 69, end |-> 78, kind |-> "PropertyAccessExpression", text |-> JsUndefined, parent |-> 5],
       [pos |-> 74, end |-> 78, kind |-> "Identifier", text |-> "name", parent |-> 10],
       [pos |-> 81, end |-> 92, kind |-> "MethodDeclaration", text |-> "render", parent |-> 2] >>

\* class Helper { name = 1; render() { return { } } }
PlainText ==
    <<
       "c", "l", "a", "s", "s", " ", "H", "e", "l", "p", "e", "r", " ",
       "{", " ", "n", "a", "m", "e", " ", "=", " ", "1", ";", " ", "r",
       "e", "n", "d", "e", "r", "(", ")", " ", "{", " ", "r", "e", "t",
       "u", "r", "n", " ", "{", " ", "}", " ", "}", " ", "}" >>

PlainNodes ==
    << [pos |-> 0, end |-> 50, kind |-> "SourceFile", text |-> JsUndefined, parent |-> 0],
       [pos |-> 0, end |-> 50, kind |-> "ClassDeclaration", text |-> "Helper", parent |-> 1],
       [pos |-> 15, end |-> 24, kind |-> "PropertyDeclaration", text |-> "name", parent |-> 2],
       [pos |-> 15, end |-> 19, kind |-> "Identifier", text |-> "name", parent |-> 3],
       [pos |-> 25, end |-> 48, kind |-> "MethodDeclaration", text |-> "render", parent |-> 2],
       [pos |-> 43, end |-> 46, kind |-> "ObjectLiteralExpression", text |-> JsUndefined, parent |-> 5] >>

\* @Component() class C { @Prop({ }) name; @State() count; @Watch('name') onNameChange() { this.name } @Listen('click') @Listen('keydown') onKey() {} componentDidLoad() {} hostData() { return { } } render() { return <p> </p> } }
RichText ==
    <<
       "@", "C", "o", "m", "p", "o", "n", "e", "n", "t", "(", ")", " ",
       "c", "l", "a", "s", "s", " ", "C", " ", "{", " ", "@", "P", "r",
       "o", "p", "(", "{", " ", "}", ")", " ", "n", "a", "m", "e", ";",
       " ", "@", "S", "t", "a", "t", "e", "(", ")", " ", "c", "o", "u",
       "n", "t", ";", " ", "@", "W", "a", "t", "c", "h", "(", "'", "n",
       "a", "m", "e", "'", ")", " ", "o", "n", "N", "a", "m", "e", "C",
       "h", "a", "n", "g", "e", "(", ")", " ", "{", " ", "t", "h", "i",
       "s", ".", "n", "a", "m", "e", " ", "}", " ", "@", "L", "i", "s",
       "t", "e", "n", "(", "'", "c", "l", "i", "c", "k", "'", ")", " ",
       "@", "L", "i", "s", "t", "e", "n", "(", "'", "k", "e", "y", "d",
       "o", "w", "n", "'", ")", " ", "o", "n", "K", "e", "y", "(", ")",
       " ", "{", "}", " ", "c", "o", "m", "p", "o", "n", "e", "n", "t",
       "D", "i", "d", "L", "o", "a", "d", "(", ")", " ", "{", "}", " ",
       "h", "o", "s", "t", "D", "a", "t", "a", "(", ")", " ", "{", " ",
       "r", "e", "t", "u", "r", "n", " ", "{", " ", "}", " ", "}", " ",
       "r", "e", "n", "d", "e", "r", "(", ")", " ", "{", " ", "r", "e",
       "t", "u", "r", "n", " ", "<", "p", ">", " ", "<", "/", "p", ">",
       " ", "}", " ", "}" >>

RichNodes ==
    << [pos |-> 0, end |-> 225, kind |-> "SourceFile", text |-> JsUndefined, parent |-> 0],
       [pos |-> 0, end |-> 225, kind |-> "ClassDeclaration", text |-> "C", parent |-> 1],
       [pos |-> 23, end |-> 39, kind |-> "PropertyDeclaration", text |-> "name", parent |-> 2],
       [pos |-> 23, end |-> 33, kind |-> "Decorator", text |-> JsUndefined, parent |-> 3],
       [pos |-> 24, end |-> 33, kind |-> "CallExpression", text |-> "Prop", parent |-> 4],
       [pos |-> 29, end |-> 32, kind |-> "ObjectLiteralExpression", text |-> JsUndefined, parent |-> 5],
       [pos |-> 34, end |-> 38, kind |-> "Identifier", text |-> "name", parent |-> 3],
       [pos |-> 40, end |-> 55, kind |-> "PropertyDeclaration", text |-> "count", parent |-> 2],
       [pos |-> 49, end |-> 54, kind |-> "Identifier", text |-> "count", parent |-> 8],
       [pos |-> 56, end |-> 99, kind |-> "MethodDeclaration", text |-> "onNameChange", parent |-> 2],
       [pos |-> 56, end |-> 70, kind |-> "Decorator", text |-> JsUndefined, parent |-> 10],
       [pos |-> 57, end |-> 70, kind |-> "CallExpression", text |-> "Watch", parent |-> 11],
       [pos |-> 63, end |-> 69, kind |-> "StringLiteral", text |-> "name", parent |-> 12],
       [pos |-> 71, end |-> 83, kind |-> "Identifier", text |-> "onNameChange", parent |-> 10],
       [pos |-> 88, end |-> 97, kind |-> "PropertyAccessExpression", text |-> JsUndefined, parent |-> 10],
       [pos |-> 93, end |-> 97, kind |-> "Identifier", text |-> "name", parent |-> 15],
       [pos |-> 100, end |-> 146, kind |-> "MethodDeclaration", text |-> "onKey", parent |-> 2],
       [pos |-> 136, end |-> 141, kind |-> "Identifier", text |-> "onKey", parent |-> 17],
       [pos |-> 147, end |-> 168, kind |-> "MethodDeclaration", text |-> "componentDidLoad", parent |-> 2],
       [pos |-> 169, end |-> 194, kind |-> "MethodDeclaration", text |-> "hostData", parent |-> 2],
       [pos |-> 189, end |-> 192, kind |-> "ObjectLiteralExpression", text |-> JsUndefined, parent |-> 20],
       [pos |-> 195, end |-> 223, kind |-> "MethodDeclaration", text |-> "render", parent |-> 2],
       [pos |-> 213, end |-> 221, kind |-> "JsxElement", text |-> JsUndefined, parent |-> 22],
       [pos |-> 216, end |-> 217, kind |-> "JsxText", text |-> JsUndefined, parent |-> 23] >>

RichClasses ==
    << Class(Identifier("C"), << Call("Component", <<>>) >>,
             << Member(Identifier("name"), "PropertyDeclaration",
                       << Call("Prop", << [kind |-> "ObjectLiteralExpression", text |-> JsUndefined] >>) >>),
                Member(Identifier("count"), "PropertyDeclaration", << Call("State", <<>>) >>),
                Member(Identifier("onNameChange"), "MethodDeclaration",
                       << Call("Watch", << StringLiteral("name") >>) >>),
                Member(Identifier("onKey"), "MethodDeclaration",
                       << Call("Listen", << StringLiteral("click") >>),
                          Call("Listen", << StringLiteral("keydown") >>) >>),
                Member(Identifier("componentDidLoad"), "MethodDeclaration", <<>>),
                Member(Identifier("hostData"), "MethodDeclaration", <<>>),
                Member(Identifier("render"), "MethodDeclaration", <<>>) >>) >>

RichFile == [text |-> RichText, classes |-> RichClasses, nodes |-> RichNodes]

ComponentClasses ==
    << Class(Identifier("C"), << Call("Component", <<>>) >>,
             << Member(Identifier("name"), "PropertyDeclaration", << Call("Prop", <<>>) >>),
                Member(Identifier("onNameChange"), "MethodDeclaration",
                       << Call("Watch", << StringLiteral("name") >>) >>),
                Member(Identifier("render"), "MethodDeclaration", <<>>) >>) >>

PlainClasses ==
    << Class(Identifier("Helper"), <<>>,
             << Member(Identifier("name"), "PropertyDeclaration", <<>>),
                Member(Identifier("render"), "MethodDeclaration", <<>>) >>) >>

ComponentFile == [text |-> ComponentText, classes |-> ComponentClasses, nodes |-> ComponentNodes]

PlainFile == [text |-> PlainText, classes |-> PlainClasses, nodes |-> PlainNodes]

FileNames == {"cmp.tsx", "util.ts"}

\* where details are asked for: the property name and the handler name of
\* cmp.tsx, and the first of these offsets in util.ts
DetailRequests == {<< "cmp.tsx", 31 >>, << "cmp.tsx", 52 >>, << "util.ts", 31 >>}

\* names asked for: a watch handler, and a member no bucket holds
DetailNames == {"onNameChange", "toString"}

\* where quick info is asked for: two offsets inside the property name and one
\* inside the handler name of cmp.tsx, and an offset past the end of util.ts
QuickInfoRequests ==
    {<< "cmp.tsx", 31 >>, << "cmp.tsx", 33 >>, << "cmp.tsx", 52 >>, << "util.ts", 52 >>}

(***************************************************************************)
(* findNode (ts-util/index): the deepest node whose span holds the         *)
(* position, found by descending into the first child that holds it.       *)
(***************************************************************************)
Contains(node, position) == node.pos <= position /\ position < node.end

RECURSIVE descend(_, _, _)
descend(nodes, i, position) ==
    LET kids == {j \in DOMAIN nodes : nodes[j].parent = i /\ Contains(nodes[j], position)}
    IN  IF kids = {} THEN nodes[i]
        ELSE descend(nodes, CHOOSE j \in kids : \A k \in kids : j <= k, position)

findNode(sourceFile, position) ==
    IF sourceFile.nodes = <<>> \/ ~Contains(sourceFile.nodes[1], position)
    THEN Undefined
    ELSE descend(sourceFile.nodes, 1, position)

\* node.parent
ParentOf(sourceFile, node) ==
    IF IsUndefined(node) \/ node.parent = 0 THEN Undefined ELSE sourceFile.nodes[node.parent]

(***************************************************************************)
(* State.                                                                  *)
(***************************************************************************)
VARIABLES
    sourceFiles,                            \* the program: file name -> source file
    cachedQuickInfo,                        \* line 276: cacheId -> QuickInfo
    cachedCompletionEntryDetailsFileName,   \* line 367
    cachedCompletionEntryDetailsPosition,   \* line 368
    cachedCompletionEntryDetailsNames,      \* line 369
    cachedCompletionEntryDetails,           \* line 370: name -> CompletionEntryDetails
    served,                                 \* history: what the detail requests of the current
                                            \* run of one (file, position) pair have returned,
                                            \* and the names the last detail request evicted
    last                                    \* the last request and its outcome

vars ==
    << sourceFiles, cachedQuickInfo, cachedCompletionEntryDetailsFileName,
       cachedCompletionEntryDetailsPosition, cachedCompletionEntryDetailsNames,
       cachedCompletionEntryDetails, served, last >>

caches ==
    << cachedQuickInfo, cachedCompletionEntryDetailsFileName,
       cachedCompletionEntryDetailsPosition, cachedCompletionEntryDetailsNames,
       cachedCompletionEntryDetails >>

\* new Map()
EmptyMap == <<>>

MapHas(map, key) == key \in DOMAIN map

\* Map.prototype.set
MapSet(map, key, value) ==
    [k \in DOMAIN map \cup {key} |-> IF k = key THEN value ELSE map[k]]

NoServed ==
    [fileName |-> JsUndefined, position |-> JsUndefined, results |-> EmptyMap, evicted |-> {}]

\* a request and its outcome: "returned" with the result, or "TypeError" for a
\* request that threw; hostCalls are the language-service operations the request
\* invoked on the host, extracted says whether it ran gatherDocumentMeta, prior is
\* the host's answer as the host gave it
Request(op, fileName, position, name) ==
    [op |-> op, fileName |-> fileName, position |-> position, name |-> name]

Outcome(request, outcome, result, prior, hostCalls, extracted) ==
    [ op |-> request.op, fileName |-> request.fileName, position |-> request.position,
      name |-> request.name, outcome |-> outcome, result |-> result, prior |-> prior,
      hostCalls |-> hostCalls, extracted |-> extracted ]

Returned(request, result, prior, hostCalls, extracted) ==
    Outcome(request, "returned", result, prior, hostCalls, extracted)

Threw(request, prior, hostCalls, extracted) ==
    Outcome(request, "TypeError", Undefined, prior, hostCalls, extracted)

\* lines 276 and 367-370
CachesEmpty ==
    /\ cachedQuickInfo = EmptyMap
    /\ cachedCompletionEntryDetailsFileName = JsUndefined
    /\ cachedCompletionEntryDetailsPosition = JsUndefined
    /\ cachedCompletionEntryDetailsNames = JsUndefined
    /\ cachedCompletionEntryDetails = EmptyMap
    /\ served = NoServed

CachesInit ==
    /\ CachesEmpty
    /\ last = Request("create", JsUndefined, JsUndefined, JsUndefined)

Init ==
    /\ sourceFiles = [f \in FileNames |-> IF f = "cmp.tsx" THEN ComponentFile ELSE PlainFile]
    /\ CachesInit

(***************************************************************************)
(* Display parts and documentation blocks.                                 *)
(***************************************************************************)
Part(kind, text) == [kind |-> kind, text |-> text]

\* a documentation block; its text is kept as the pieces it was concatenated from
Doc(kind, pieces) == [kind |-> kind, pieces |-> pieces]

LifecycleMarker == "**Component Lifecycle Method**"

MethodMarker == "**Component Method**"

\* x.text.indexOf(marker) > -1 for some block x
SomeDocHas(documentation, marker) ==
    \E i \in DOMAIN documentation : Includes(documentation[i].pieces, marker)

\* a value JavaScript treats as false
Falsy(x) == x \in {JsFalse, JsUndefined, ""}

buildStencilDecoratorDisplayParts(kind, arg) ==
    << Part("punctuation", "@"), Part("text", kind), Part("punctuation", "(") >>
    \o (IF Falsy(arg) THEN <<>> ELSE << Part("text", arg) >>)
    \o << Part("punctuation", ")") >>

buildStencilDisplayParts(kind) == << Part("text", kind) >>

MathMin(a, b) == IF a < b THEN a ELSE b

\* Array.prototype.splice(start, deleteCount, ...items), the array afterwards
Splice(seq, start, deleteCount, items) ==
    LET from == MathMin(start, Len(seq))
        count == MathMin(deleteCount, Len(seq) - from)
    IN  SubSeq(seq, 1, from) \o items \o SubSeq(seq, from + count + 1, Len(seq))

RECURSIVE Flatten(_)
Flatten(seqs) == IF seqs = <<>> THEN <<>> ELSE Head(seqs) \o Flatten(Tail(seqs))

(***************************************************************************)
(* The host's getCompletionEntryDetails.  An answer carries the request it *)
(* was made for, which stands for the identity of the object the host      *)
(* created for that call.                                                  *)
(***************************************************************************)
HostDetail(fileName, position, name, kind) ==
    [ request |-> << fileName, position, name >>,
      name |-> name,
      kind |-> kind,
      displayParts |->
          << Part("punctuation", "("), Part("text", kind), Part("punctuation", ")"),
             Part("space", " "),
             Part(IF kind = "method" THEN "methodName" ELSE "propertyName", name) >>,
      documentation |-> <<>> ]

HostDetailKinds == {"method", "keyword"}

HostDetails(fileName, position, name) ==
    {Undefined} \cup {HostDetail(fileName, position, name, kind) : kind \in HostDetailKinds}

(***************************************************************************)
(* proxy.getCompletionEntryDetails, lines 372-415.                         *)
(***************************************************************************)
\* a test at line 373 that never finds the name stored
DetailCachedNever(fileName, position, name) == FALSE

\* line 373
DetailCached(fileName, position, name) ==
    /\ cachedCompletionEntryDetailsFileName = fileName
    /\ cachedCompletionEntryDetailsPosition = position
    /\ Includes(cachedCompletionEntryDetailsNames, name)

\* line 380: the kinds the detail adjustment applies to
DetailAdjusted(prior) == prior.kind = "property" \/ prior.kind = "method"

\* lines 378-381: prior.kind of an absent answer, and the destructuring of an
\* absent category, are TypeErrors
DetailThrows(meta, name, prior) ==
    \/ IsUndefined(prior)
    \/ DetailAdjusted(prior) /\ IsUndefined(getCategory(meta, name))

\* lines 382-397, for a category that was found
adjustDetails(meta, name, prior) ==
    LET found == getCategory(meta, name)
        item == found.item
        category == found.category
    IN  IF category = "watch"
        THEN [prior EXCEPT !.displayParts =
                Splice(@, 1, 1, buildStencilDisplayParts("watch"))
                \o << Part("punctuation", "\n"), Part("punctuation", "("),
                      Part("text", "watched"), Part("punctuation", ")"),
                      Part("space", " "), Part("keyword", item.prop) >>]
        ELSE IF category = "listen"
        THEN LET eventDisplayParts ==
                    Flatten([i \in DOMAIN item.events |->
                        buildStencilDecoratorDisplayParts("Watch", item.events[i])
                        \o << Part("punctuation", "\n") >>])
             IN  [prior EXCEPT !.displayParts = eventDisplayParts \o Splice(@, 0, 4, <<>>)]
        ELSE [prior EXCEPT
                !.documentation =
                    IF category = "lifecycle"
                    THEN Append(@, Doc("markdown", << LifecycleMarker, name >>))
                    ELSE @,
                !.displayParts = Splice(@, 1, 1, buildStencilDisplayParts(category))]

\* a clear() that removes nothing
MapClearKept(map) == map

\* cachedCompletionEntryDetails.clear()
MapClear(map) == EmptyMap

\* lines 401-411
storeDetails(fileName, position, name, result) ==
    IF /\ cachedCompletionEntryDetailsFileName = fileName
       /\ cachedCompletionEntryDetailsPosition = position
    THEN /\ cachedCompletionEntryDetailsNames' = Append(cachedCompletionEntryDetailsNames, name)
         /\ cachedCompletionEntryDetails' = MapSet(cachedCompletionEntryDetails, name, result)
         /\ UNCHANGED << cachedCompletionEntryDetailsFileName,
                         cachedCompletionEntryDetailsPosition >>
    ELSE /\ cachedCompletionEntryDetails' =
                MapSet(MapClear(cachedCompletionEntryDetails), name, result)
         /\ cachedCompletionEntryDetailsFileName' = fileName
         /\ cachedCompletionEntryDetailsPosition' = position
         /\ cachedCompletionEntryDetailsNames' = << name >>

detailCaches ==
    << cachedCompletionEntryDetailsFileName, cachedCompletionEntryDetailsPosition,
       cachedCompletionEntryDetailsNames, cachedCompletionEntryDetails >>

\* the history of the current run of requests for one (file, position) pair
Serve(outcome) ==
    LET sameRun == served.fileName = outcome.fileName /\ served.position = outcome.position
        before == IF sameRun THEN served.results ELSE EmptyMap
    IN  served' = [ fileName |-> outcome.fileName,
                    position |-> outcome.position,
                    results |-> IF outcome.outcome = "returned"
                                THEN MapSet(before, outcome.name, outcome.result)
                                ELSE before,
                    evicted |-> DOMAIN cachedCompletionEntryDetails
                                \ DOMAIN cachedCompletionEntryDetails' ]

\* prior is what the host answers if it is asked
getCompletionEntryDetails(fileName, position, name, prior) ==
    LET request == Request("getCompletionEntryDetails", fileName, position, name)
        sourceFile == sourceFiles[fileName]
        host == {"getCompletionEntryDetails"}
    IN  /\ IF DetailCached(fileName, position, name)
           THEN /\ last' = Returned(request, cachedCompletionEntryDetails[name],
                                    Undefined, {}, FALSE)
                /\ UNCHANGED detailCaches
           ELSE IF gatherDocumentMetaThrows(sourceFile)
           THEN /\ last' = Threw(request, Undefined, {}, TRUE)
                /\ UNCHANGED detailCaches
           ELSE IF DetailThrows(gatherDocumentMeta(sourceFile), name, prior)
           THEN /\ last' = Threw(request, prior, host, TRUE)
                /\ UNCHANGED detailCaches
           ELSE LET result == IF DetailAdjusted(prior)
                              THEN adjustDetails(gatherDocumentMeta(sourceFile), name, prior)
                              ELSE prior
                IN  /\ storeDetails(fileName, position, name, result)
                    /\ last' = Returned(request, result, prior, host, TRUE)
        /\ Serve(last')
        /\ UNCHANGED << sourceFiles, cachedQuickInfo >>

(***************************************************************************)
(* proxy.getQuickInfoAtPosition, lines 340-365.                            *)
(***************************************************************************)
Digits == << "0", "1", "2", "3", "4", "5", "6", "7", "8", "9" >>

\* String(n) for n >= 0
RECURSIVE NumberToString(_)
NumberToString(n) ==
    IF n < 10 THEN << Digits[n + 1] >>
    ELSE NumberToString(n \div 10) \o << Digits[(n % 10) + 1] >>

\* line 342: `${fileName}@${node.pos}:${node.end}`
cacheId(fileName, node) ==
    Chars(fileName) \o << "@" >> \o NumberToString(node.pos) \o << ":" >> \o NumberToString(node.end)

\* the host's quick info: absent, or a method with or without a methodName part
HostQuickInfo(fileName, position, kind, parts) ==
    [ request |-> << fileName, position >>,
      kind |-> kind,
      displayParts |-> parts,
      documentation |-> <<>> ]

HostQuickInfos(fileName, position) ==
    {Undefined}
    \cup {HostQuickInfo(fileName, position, "method", << Part("methodName", "componentDidLoad") >>),
          HostQuickInfo(fileName, position, "method", << Part("text", "method") >>)}

\* line 349: prior.displayParts.find(x => x.kind === 'methodName')
FindMethodName(displayParts) ==
    IF \E i \in DOMAIN displayParts : displayParts[i].kind = "methodName"
    THEN displayParts[CHOOSE i \in DOMAIN displayParts :
            /\ displayParts[i].kind = "methodName"
            /\ \A j \in 1..(i - 1) : displayParts[j].kind # "methodName"]
    ELSE Undefined

\* line 354: name.text of an absent methodName part is a TypeError
QuickInfoThrows(prior) ==
    /\ ~IsUndefined(prior)
    /\ prior.kind = "method"
    /\ IsUndefined(FindMethodName(prior.displayParts))

pushDocOnce(prior, marker, name) ==
    IF SomeDocHas(prior.documentation, marker) THEN prior
    ELSE [prior EXCEPT !.documentation = Append(@, Doc("markdown", << marker, name >>))]

\* lines 348-359
adjustQuickInfo(prior) ==
    IF ~IsUndefined(prior) /\ prior.kind = "method"
    THEN LET name == FindMethodName(prior.displayParts)
         IN  IF Includes(ComponentLifecycleMethods, name.text)
             THEN pushDocOnce(prior, LifecycleMarker, name.text)
             ELSE IF Includes(ComponentBuiltinMethods, name.text)
             THEN pushDocOnce(prior, MethodMarker, name.text)
             ELSE prior
    ELSE prior

\* a store that keeps the newest entry only
storeQuickInfoAlone(map, key, value) == MapSet(EmptyMap, key, value)

\* cachedQuickInfo.set(cacheId, prior)
storeQuickInfo(map, key, value) == MapSet(map, key, value)

getQuickInfoAtPosition(fileName, position, prior) ==
    LET request == Request("getQuickInfoAtPosition", fileName, position, JsUndefined)
        node == findNode(sourceFiles[fileName], position)
        host == {"getQuickInfoAtPosition"}
    IN  /\ IF IsUndefined(node)
           THEN /\ last' = Threw(request, Undefined, {}, FALSE)
                /\ UNCHANGED cachedQuickInfo
           ELSE IF MapHas(cachedQuickInfo, cacheId(fileName, node))
           THEN /\ last' = Returned(request, cachedQuickInfo[cacheId(fileName, node)],
                                    Undefined, {}, FALSE)
                /\ UNCHANGED cachedQuickInfo
           ELSE IF QuickInfoThrows(prior)
           THEN /\ last' = Threw(request, prior, host, FALSE)
                /\ UNCHANGED cachedQuickInfo
           ELSE /\ cachedQuickInfo' =
                       storeQuickInfo(cachedQuickInfo, cacheId(fileName, node),
                                      adjustQuickInfo(prior))
                /\ last' = Returned(request, adjustQuickInfo(prior), prior, host, FALSE)
        /\ UNCHANGED << sourceFiles, detailCaches, served >>

(***************************************************************************)
(* proxy.findReferences, lines 278-308.                                    *)
(***************************************************************************)
\* String.prototype.indexOf: the first offset (from 0) of needle in text, or -1
StringIndexOf(text, needle) ==
    LET at(i) == SubSeq(text, i, i + Len(needle) - 1) = needle
        starts == {i \in 1..(Len(text) - Len(needle) + 1) : at(i)}
    IN  IF starts = {} THEN -1
        ELSE (CHOOSE i \in starts : \A j \in starts : i <= j) - 1

\* lines 283-284 and 315-316: the name under the cursor, of a node that exists
nodeText(node) ==
    IF node.kind = "Identifier" THEN node.text
    ELSE IF node.kind = "PropertyDeclaration" /\ node.text # JsFalse THEN node.text
    ELSE JsUndefined

\* meta.watched.some(w => w.prop === text)
isWatchedProp(meta, text) == \E i \in DOMAIN meta.watched : meta.watched[i].prop = text

\* lines 290-291: the double-quoted name first, the single-quoted name if there is none
findQuoted(sourceText, text) ==
    LET double == StringIndexOf(sourceText, << "\"" >> \o Chars(text) \o << "\"" >>)
    IN  IF double > -1 THEN double
        ELSE StringIndexOf(sourceText, << "'" >> \o Chars(text) \o << "'" >>)

\* ReferencedSymbol[]: the array is kept in a record, so that an absent answer
\* and an array can be told apart
ReferencedSymbols(symbols) == [symbols |-> symbols]

\* lines 294-303: the record pushed, for a prior that has a first element
stringReference(fileName, text, found, prior) ==
    [ definition |-> prior.symbols[1].definition,
      references |->
          << [ textSpan |-> [start |-> found + 1, length |-> Len(Chars(text))],
               fileName |-> fileName,
               isDefinition |-> FALSE,
               isWriteAccess |-> TRUE,
               isInString |-> TRUE ] >> ]

\* the host's findReferences: nothing, an empty list, or the symbol's own references
HostSymbol(fileName, position) ==
    [ definition |-> [fileName |-> fileName, position |-> position],
      references |->
          << [ textSpan |-> [start |-> position, length |-> 1],
               fileName |-> fileName,
               isDefinition |-> TRUE,
               isWriteAccess |-> FALSE,
               isInString |-> FALSE ] >> ]

HostReferences(fileName, position) ==
    { Undefined, ReferencedSymbols(<<>>),
      ReferencedSymbols(<< HostSymbol(fileName, position) >>) }

findReferences(fileName, position, prior) ==
    LET request == Request("findReferences", fileName, position, JsUndefined)
        sourceFile == sourceFiles[fileName]
        meta == gatherDocumentMeta(sourceFile)
        node == findNode(sourceFile, position)
        text == nodeText(node)
        found == findQuoted(sourceFile.text, text)
        host == {"findReferences"}
    IN  /\ IF gatherDocumentMetaThrows(sourceFile)
           THEN last' = Threw(request, Undefined, {}, TRUE)
           ELSE IF IsUndefined(node)
           \* ts.isIdentifier(undefined) reads .kind of undefined
           THEN last' = Threw(request, Undefined, {}, TRUE)
           ELSE IF isWatchedProp(meta, text) /\ found > -1
           THEN IF IsUndefined(prior) \/ prior.symbols = <<>>
                \* prior.push of an absent list, prior[0].definition of an empty one
                THEN last' = Threw(request, prior, host, TRUE)
                ELSE last' = Returned(request,
                                [prior EXCEPT !.symbols =
                                    Append(@, stringReference(fileName, text, found, prior))],
                                prior, host, TRUE)
           ELSE last' = Returned(request, prior, prior, host, TRUE)
        /\ UNCHANGED << sourceFiles, caches, served >>

(***************************************************************************)
(* proxy.findRenameLocations, lines 310-339.                               *)
(***************************************************************************)
\* RenameLocation[]: the array is kept in a record, as ReferencedSymbols is
RenameLocations(locations) == [locations |-> locations]

\* line 318: text && meta.watched.some(w => w.prop === text)
isWatched(meta, text) == ~Falsy(text) /\ isWatchedProp(meta, text)

\* line 323: meta.watched.find(w => w.prop === text)
FindWatcher(meta, text) ==
    meta.watched[CHOOSE i \in DOMAIN meta.watched :
        /\ meta.watched[i].prop = text
        /\ \A j \in 1..(i - 1) : meta.watched[j].prop # text]

\* line 324: watcher.handler.indexOf(text), for a handler that is a string
propReferenceIndex(meta, text) ==
    StringIndexOf(Chars(FindWatcher(meta, text).handler), Chars(text))

\* lines 328-334: the location pushed
handlerLocation(fileName, sourceText, meta, text) ==
    [ fileName |-> fileName,
      textSpan |->
          [ start |-> StringIndexOf(sourceText, Chars(FindWatcher(meta, text).handler))
                      + propReferenceIndex(meta, text),
            length |-> Len(Chars(text)) ] ]

\* line 321: the host's operation, with the findInStrings it is called with
RenameCall(findInStrings) ==
    IF findInStrings THEN "findRenameLocations(findInStrings)" ELSE "findRenameLocations"

\* the host's findRenameLocations: nothing (the position cannot be renamed),
\* or the locations of the symbol
HostLocation(fileName, position) ==
    [fileName |-> fileName, textSpan |-> [start |-> position, length |-> 1]]

HostRenames(fileName, position) ==
    {Undefined, RenameLocations(<< HostLocation(fileName, position) >>)}

findRenameLocations(fileName, position, findInStrings, prior) ==
    LET request == Request("findRenameLocations", fileName, position, JsUndefined)
        sourceFile == sourceFiles[fileName]
        meta == gatherDocumentMeta(sourceFile)
        node == findNode(sourceFile, position)
        text == nodeText(node)
        watched == isWatched(meta, text)
        host == {RenameCall(watched \/ findInStrings)}
    IN  /\ IF gatherDocumentMetaThrows(sourceFile)
           THEN last' = Threw(request, Undefined, {}, TRUE)
           ELSE IF IsUndefined(node)
           \* ts.isIdentifier(undefined) reads .kind of undefined
           THEN last' = Threw(request, Undefined, {}, TRUE)
           ELSE IF ~watched
           THEN last' = Returned(request, prior, prior, host, TRUE)
           ELSE IF Falsy(FindWatcher(meta, text).handler)
           \* indexOf of a handler name that is false or undefined
           THEN last' = Threw(request, prior, host, TRUE)
           ELSE IF propReferenceIndex(meta, text) > -1
           THEN IF IsUndefined(prior)
                \* prior.push of an absent answer
                THEN last' = Threw(request, prior, host, TRUE)
                ELSE last' = Returned(request,
                                [prior EXCEPT !.locations =
                                    Append(@, handlerLocation(fileName, sourceFile.text,
                                                              meta, text))],
                                prior, host, TRUE)
           ELSE last' = Returned(request, prior, prior, host, TRUE)
        /\ UNCHANGED << sourceFiles, caches, served >>

(***************************************************************************)
(* proxy.getCompletionsAtPosition, lines 418-552.                          *)
(***************************************************************************)
\* StencilConstants.PropOptionsExpansion
PropOptionsExpansion(name) ==
    CASE name \in {"attr", "context", "connect"} -> "string"
      [] name \in {"mutable", "reflectToAttr"} -> "boolean"
      [] OTHER -> JsUndefined

HostDataCompletions == << "class", "style", "slot", "aria-label" >>

\* lines 93-99
expandTo(name, type) ==
    IF type = "string" THEN Chars(name) \o << ":", " " >>
    ELSE IF type = "boolean" THEN Chars(name) \o << ":", " ", "t", "r", "u", "e" >>
    ELSE JsUndefined

Entry(name, kind) == [name |-> name, kind |-> kind, sortText |-> << "0" >>]

\* lines 451-455
expandEntry(entry) ==
    [ name |-> entry.name, kind |-> entry.kind, sortText |-> entry.sortText,
      insertText |-> expandTo(entry.name, PropOptionsExpansion(entry.name)),
      hasAction |-> TRUE ]

\* lines 471-475
keepEntry(entry) ==
    IF entry.kind = "method" THEN ~Includes(ComponentBuiltinMethods, entry.name) ELSE TRUE

\* lines 476-486
sortEntry(meta, entry) ==
    LET category == getCategory(meta, entry.name)
    IN  IF ~IsUndefined(category)
        THEN [entry EXCEPT !.sortText = getSortText(category.category, entry.name)]
        ELSE entry

\* lines 470-486
adjustEntries(meta, entries) ==
    LET kept == SelectSeq(entries, keepEntry)
    IN  [i \in DOMAIN kept |-> sortEntry(meta, kept[i])]

\* line 445
insideDecoratorCall(sourceFile, node) ==
    /\ ~IsUndefined(node)
    /\ ~IsUndefined(ParentOf(sourceFile, node))
    /\ ParentOf(sourceFile, node).kind = "CallExpression"
    /\ ParentOf(sourceFile, ParentOf(sourceFile, node)).kind = "Decorator"

\* line 466
isMemberList(prior) ==
    /\ ~IsUndefined(prior)
    /\ prior.isMemberCompletion
    /\ ~prior.isNewIdentifierLocation

\* lines 516-524: the node or one of its ancestors is the method hostData
RECURSIVE insideHostData(_, _)
insideHostData(sourceFile, node) ==
    \/ node.kind = "MethodDeclaration" /\ node.text = "hostData"
    \/ /\ node.parent # 0
       /\ insideHostData(sourceFile, sourceFile.nodes[node.parent])

\* lines 527-538
hostDataCompletions ==
    [ isGlobalCompletion |-> FALSE,
      isMemberCompletion |-> TRUE,
      isNewIdentifierLocation |-> TRUE,
      entries |->
          [ i \in DOMAIN HostDataCompletions |->
              LET item == HostDataCompletions[i]
              IN  [ name |-> item,
                    kind |-> "property",
                    insertText |->
                        IF StringIndexOf(Chars(item), << "-" >>) > 0
                        THEN << "'" >> \o Chars(item) \o << "'", ":", " " >>
                        ELSE Chars(item) \o << ":", " " >> ] ] ]

\* String.prototype.startsWith
StartsWith(text, prefix) ==
    Len(text) >= Len(prefix) /\ SubSeq(text, 1, Len(prefix)) = prefix

\* Array.prototype.slice(start)
Slice(seq, start) == SubSeq(seq, start + 1, Len(seq))

\* lines 488-491, on the tag names the type checker gives (each a string)
intrinsicElements(tagNames) ==
    SelectSeq(Slice(tagNames, 115),
              LAMBDA value : ~StartsWith(value, << "t", "e", "s", "t", "-" >>))

\* lines 493-508
jsxCompletions(tagNames) ==
    [ isGlobalCompletion |-> FALSE,
      isMemberCompletion |-> FALSE,
      isNewIdentifierLocation |-> TRUE,
      entries |->
          [ i \in DOMAIN intrinsicElements(tagNames) |->
              [ name |-> intrinsicElements(tagNames)[i],
                kind |-> "",
                insertText |-> << "<" >> \o intrinsicElements(tagNames)[i] \o << ">" >> ] ] ]

\* the tag names of the type checker: the 115 the slice drops, then the project's own
HostTagNames ==
    [i \in 1..115 |-> << "d", "i", "v" >>]
    \o << << "m", "y", "-", "c", "m", "p" >>, << "t", "e", "s", "t", "-", "x" >> >>

\* prior is the host's answer: absent, or [isMemberCompletion, isNewIdentifierLocation, entries]
getCompletionsAtPosition(fileName, position, prior) ==
    LET request == Request("getCompletionsAtPosition", fileName, position, JsUndefined)
        sourceFile == sourceFiles[fileName]
        node == findNode(sourceFile, position)
        host == {"getCompletionsAtPosition"}
        \* lines 542-551: prior.entries.length of an absent answer is a TypeError
        fallThrough(answer, extracted) ==
            IF IsUndefined(answer)
            THEN Threw(request, prior, host, extracted)
            ELSE Returned(request, answer, prior, host, extracted)
    IN  /\ IF insideDecoratorCall(sourceFile, node)
           THEN IF ParentOf(sourceFile, node).text = "Prop"
                   /\ node.kind = "ObjectLiteralExpression"
                THEN IF IsUndefined(prior)
                     THEN last' = Threw(request, prior, host, FALSE)
                     ELSE last' = Returned(request,
                                [prior EXCEPT !.entries =
                                    [i \in DOMAIN prior.entries |-> expandEntry(prior.entries[i])]],
                                prior, host, FALSE)
                ELSE last' = fallThrough(prior, FALSE)
           ELSE IF isMemberList(prior)
           THEN IF gatherDocumentMetaThrows(sourceFile)
                THEN last' = Threw(request, prior, host, TRUE)
                ELSE last' = Returned(request,
                                [prior EXCEPT !.entries =
                                    adjustEntries(gatherDocumentMeta(sourceFile), prior.entries)],
                                prior, host, TRUE)
           ELSE IF IsUndefined(node)
           \* ts.isJsxText(undefined) reads .kind of undefined
           THEN last' = Threw(request, prior, host, FALSE)
           ELSE IF node.kind = "JsxText"
           THEN IF IsUndefined(prior)
                THEN last' = Returned(request, jsxCompletions(HostTagNames), prior,
                                      host \cup {"getJsxIntrinsicTagNamesAt"}, FALSE)
                ELSE last' = Returned(request, prior, prior,
                                      host \cup {"getJsxIntrinsicTagNamesAt"}, FALSE)
           ELSE IF node.kind = "ObjectLiteralExpression" /\ insideHostData(sourceFile, node)
           THEN last' = Returned(request, hostDataCompletions, prior, host, FALSE)
           ELSE last' = fallThrough(prior, FALSE)
        /\ UNCHANGED << sourceFiles, caches, served >>

(***************************************************************************)
(* The plugin serving requests on the two fixture files.                   *)
(***************************************************************************)
CompletionInfo(isMemberCompletion, isNewIdentifierLocation, entries) ==
    [ isGlobalCompletion |-> FALSE,
      isMemberCompletion |-> isMemberCompletion,
      isNewIdentifierLocation |-> isNewIdentifierLocation,
      entries |-> entries ]

\* the host's member completions after `this.`
HostMembers ==
    CompletionInfo(TRUE, FALSE, << Entry("render", "method"), Entry("onNameChange", "method") >>)

Details ==
    \E at \in DetailRequests, name \in DetailNames :
        \E prior \in HostDetails(at[1], at[2], name) :
            getCompletionEntryDetails(at[1], at[2], name, prior)

QuickInfo ==
    \E at \in QuickInfoRequests :
        \E prior \in HostQuickInfos(at[1], at[2]) :
            getQuickInfoAtPosition(at[1], at[2], prior)

\* references are asked for at the property name, completions at the handler
\* name of cmp.tsx, and both past the end of util.ts
References ==
    \E at \in {<< "cmp.tsx", 31 >>, << "util.ts", 52 >>} :
        findReferences(at[1], at[2], ReferencedSymbols(<< HostSymbol(at[1], at[2]) >>))

Completions ==
    \E at \in {<< "cmp.tsx", 52 >>, << "util.ts", 52 >>} :
        getCompletionsAtPosition(at[1], at[2], HostMembers)

\* a rename is asked for at the property name of cmp.tsx and past the end of
\* util.ts
Rename ==
    \E at \in {<< "cmp.tsx", 31 >>, << "util.ts", 52 >>} :
        findRenameLocations(at[1], at[2], FALSE,
                            RenameLocations(<< HostLocation(at[1], at[2]) >>))

Next ==
    \/ Details
    \/ QuickInfo
    \/ References
    \/ Rename
    \/ Completions

Spec == Init /\ [][Next]_vars

(***************************************************************************)
(* The extractor on a bounded set of declaration trees.                    *)
(***************************************************************************)
MaxMembers == 2

MaxDecorators == 2

SeqsUpTo(S, n) == UNION {[1..k -> S] : k \in 0..n}

\* a decorator argument that is not a string literal
OtherArgument == [kind |-> "Identifier", text |-> "x"]

MetaDecorators ==
    { Call("State", <<>>), Call("Prop", <<>>),
      Call("Watch", << StringLiteral("name") >>), Call("Watch", << OtherArgument >>),
      Call("Watch", <<>>),
      Call("Listen", << StringLiteral("click") >>),
      Call("Listen", << StringLiteral("keydown") >>) }

MetaNames == {"name", "render", "componentDidLoad"}

MetaMembers ==
    { Member(Identifier(name), kind, decorators) :
        name \in MetaNames,
        kind \in {"PropertyDeclaration", "MethodDeclaration"},
        decorators \in SeqsUpTo(MetaDecorators, MaxDecorators) }

Component(members) == Class(Identifier("C"), << Call("Component", <<>>) >>, members)

Property(name, decorators) == Member(Identifier(name), "PropertyDeclaration", decorators)

Method(name, decorators) == Member(Identifier(name), "MethodDeclaration", decorators)

\* trees outside the bounded set: the remaining decorators, a member and a class
\* without an identifier name, an accessor, a class that is no component, two
\* component classes, the four-member class of the README, and a handler with
\* a string literal for its name
ScenarioClasses ==
    { << Component(<< Property("el", << Call("Element", <<>>) >>),
                      Property("changed", << Call("Event", <<>>) >>),
                      Method("load", << Call("Method", <<>>) >>),
                      Method("onKey", << Call("Listen", << OtherArgument >>) >>),
                      Property("label", << Call(JsFalse, <<>>) >>) >>) >>,
      << Component(<< Method("onKey", << Call("Listen", <<>>) >>),
                      Property("count", << Call("State", <<>>) >>) >>) >>,
      << Component(<< Member(StringLiteral("label"), "PropertyDeclaration", <<>>),
                      Member(NoNode, "Constructor", <<>>),
                      Member(Identifier("count"), "GetAccessor", <<>>),
                      Member(Identifier("label"), "GetAccessor", << Call("Prop", <<>>) >>),
                      Member(StringLiteral("count"), "PropertyDeclaration",
                             << Call("State", <<>>) >>) >>) >>,
      << Class(NoNode, << Call("Component", <<>>) >>,
               << Property("count", << Call("State", <<>>) >>) >>) >>,
      << Class(Identifier("Helper"), <<>>,
               << Property("count", << Call("State", <<>>) >>), Method("load", <<>>) >>) >>,
      << Component(<< Property("count", <<>>) >>),
         Class(Identifier("D"), << Call("Component", <<>>) >>,
               << Property("count", << Call("State", <<>>) >>) >>) >>,
      << Component(<< Property("count", << Call("State", <<>>) >>),
                      Property("label", << Call("Prop", <<>>) >>),
                      Method("render", <<>>),
                      Method("componentDidLoad", <<>>) >>) >>,
      << Component(<< Member(StringLiteral("onKey"), "MethodDeclaration",
                             << Call("Listen", << StringLiteral("click") >>),
                                Call("Listen", << StringLiteral("keydown") >>) >>) >>) >>,
      RichClasses, PlainClasses }

MetaClasses ==
    {<< Component(members) >> : members \in SeqsUpTo(MetaMembers, MaxMembers)}
    \cup ScenarioClasses

TreeFile(classes) == [text |-> <<>>, classes |-> classes, nodes |-> <<>>]

InitMeta ==
    /\ \E classes \in MetaClasses :
          sourceFiles = [f \in FileNames |-> TreeFile(classes)]
    /\ CachesInit

\* a call of the extractor, as every operation that needs the model makes it
Gather(fileName) ==
    LET request == Request("gatherDocumentMeta", fileName, JsUndefined, JsUndefined)
    IN  /\ last' = IF gatherDocumentMetaThrows(sourceFiles[fileName])
                   THEN Threw(request, Undefined, {}, TRUE)
                   ELSE Returned(request, gatherDocumentMeta(sourceFiles[fileName]),
                                 Undefined, {}, TRUE)
        /\ UNCHANGED << sourceFiles, caches, served >>

NextMeta == Gather("cmp.tsx")

SpecMeta == InitMeta /\ [][NextMeta]_vars

(***************************************************************************)
(* getSortText on pairs of (category, member name).                        *)
(***************************************************************************)
SortNames == {"el", "label", "name", "nameChanged", "onKey", "onNameChange"}

\* a category of the canonical list with a name that may be in its bucket
SortItems ==
    { [category |-> category, name |-> name] :
        category \in {categories[i] : i \in DOMAIN categories} \ {"lifecycle"},
        name \in SortNames }
    \cup { [category |-> "lifecycle", name |-> ComponentLifecycleMethods[i]] :
             i \in DOMAIN ComponentLifecycleMethods }

\* two entries whose sort keys are to be compared
InitSort ==
    /\ sourceFiles = [f \in FileNames |-> PlainFile]
    /\ CachesEmpty
    /\ \E a \in SortItems, b \in SortItems : last = [op |-> "compare", a |-> a, b |-> b]

\* the sort keys of the two entries, as line 479 computes each
SortKeys ==
    /\ last.op = "compare"
    /\ last' = [ op |-> "getSortText", a |-> last.a, b |-> last.b,
                 keyA |-> getSortText(last.a.category, last.a.name),
                 keyB |-> getSortText(last.b.category, last.b.name) ]
    /\ UNCHANGED << sourceFiles, caches, served >>

NextSort == SortKeys

SpecSort == InitSort /\ [][NextSort]_vars

(***************************************************************************)
(* getCompletionsAtPosition on bounded host answers.                       *)
(***************************************************************************)
MaxEntries == 2

\* @Component() class C { @Listen() onKey() {} @State() count; }
UnfinishedClasses ==
    << Component(<< Method("onKey", << Call("Listen", <<>>) >>),
                    Property("count", << Call("State", <<>>) >>) >>) >>

SuggestFiles == {RichFile, ComponentFile, TreeFile(UnfinishedClasses)}

SuggestEntries ==
    { Entry(name, kind) :
        name \in {"render", "hostData", "name", "onNameChange", "componentDidLoad",
                  "toString", "attr"},
        kind \in {"method", "property"} }

SuggestAnswers ==
    {Undefined}
    \cup { CompletionInfo(isMember, isNew, entries) :
             isMember \in BOOLEAN, isNew \in BOOLEAN,
             entries \in SeqsUpTo(SuggestEntries, MaxEntries) }

\* offsets in the text of RichFile: the options of @Prop, the name of count,
\* the name after `this.`, the object hostData returns, the text inside <p>
SuggestPositions == {30, 50, 94, 190, 216}

\* a request about to be made, and the answer the host has for it
InitSuggest ==
    /\ \E file \in SuggestFiles :
          sourceFiles = [f \in FileNames |-> IF f = "cmp.tsx" THEN file ELSE PlainFile]
    /\ CachesEmpty
    /\ \E fileName \in FileNames, position \in SuggestPositions, prior \in SuggestAnswers :
          last = [ op |-> "request", fileName |-> fileName, position |-> position,
                   prior |-> prior ]

NextSuggest ==
    /\ last.op = "request"
    /\ getCompletionsAtPosition(last.fileName, last.position, last.prior)

SpecSuggest == InitSuggest /\ [][NextSuggest]_vars

(***************************************************************************)
(* findReferences on source texts put together from member declarations.   *)
(***************************************************************************)
MaxChunks == 2

\* @Component() class C { @Prop() name;
RefsPrefix ==
    << "@", "C", "o", "m", "p", "o", "n", "e", "n", "t", "(", ")", " ", "c",
       "l", "a", "s", "s", " ", "C", " ", "{", " ", "@", "P", "r", "o", "p",
       "(", ")", " ", "n", "a", "m", "e", ";" >>

\* a member declaration: its text and its node
\*   @Watch('name') onNameChange() {}
WatchSingle ==
    [ text |->
        << " ", "@", "W", "a", "t", "c", "h", "(", "'", "n", "a", "m", "e",
           "'", ")", " ", "o", "n", "N", "a", "m", "e", "C", "h", "a", "n",
           "g", "e", "(", ")", " ", "{", "}" >>,
      member |-> Method("onNameChange", << Call("Watch", << StringLiteral("name") >>) >>) ]

\* a member declaration: its text and its node
\*   @Watch("name") onNameChange() {}
WatchDouble ==
    [ text |->
        << " ", "@", "W", "a", "t", "c", "h", "(", "\"", "n", "a", "m", "e",
           "\"", ")", " ", "o", "n", "N", "a", "m", "e", "C", "h", "a", "n",
           "g", "e", "(", ")", " ", "{", "}" >>,
      member |-> Method("onNameChange", << Call("Watch", << StringLiteral("name") >>) >>) ]

\* a member declaration: its text and its node
\*   label = 'name';
FieldSingle ==
    [ text |->
        << " ", "l", "a", "b", "e", "l", " ", "=", " ", "'", "n", "a", "m",
           "e", "'", ";" >>,
      member |-> Property("label", <<>>) ]

\* a member declaration: its text and its node
\*   label = "name";
FieldDouble ==
    [ text |->
        << " ", "l", "a", "b", "e", "l", " ", "=", " ", "\"", "n", "a", "m",
           "e", "\"", ";" >>,
      member |-> Property("label", <<>>) ]

\* a member declaration: its text and its node
\*   @Watch('label') onKey() {}
WatchOther ==
    [ text |->
        << " ", "@", "W", "a", "t", "c", "h", "(", "'", "l", "a", "b", "e",
           "l", "'", ")", " ", "o", "n", "K", "e", "y", "(", ")", " ", "{",
           "}" >>,
      member |-> Method("onKey", << Call("Watch", << StringLiteral("label") >>) >>) ]

RefsChunks == {WatchSingle, WatchDouble, FieldSingle, FieldDouble, WatchOther}

\* the file whose class holds the property name and the members of `chunks`
RefsFile(chunks) ==
    LET body == Flatten([i \in DOMAIN chunks |-> chunks[i].text])
        text == RefsPrefix \o body \o << " ", "}" >>
    IN  [ text |-> text,
          classes |->
              << Component(<< Property("name", << Call("Prop", <<>>) >>) >>
                           \o [i \in DOMAIN chunks |-> chunks[i].member]) >>,
          nodes |->
              << [pos |-> 0, end |-> Len(text), kind |-> "SourceFile",
                  text |-> JsUndefined, parent |-> 0],
                 [pos |-> 0, end |-> Len(text), kind |-> "ClassDeclaration",
                  text |-> "C", parent |-> 1],
                 [pos |-> 23, end |-> 36, kind |-> "PropertyDeclaration",
                  text |-> "name", parent |-> 2],
                 [pos |-> 31, end |-> 35, kind |-> "Identifier",
                  text |-> "name", parent |-> 3] >> ]

RefsFiles == {RefsFile(chunks) : chunks \in SeqsUpTo(RefsChunks, MaxChunks)}

\* offsets asked for: the class, the identifier name, the end of its declaration
RefsPositions == {22, 31, 35}

InitRefs ==
    /\ \E file \in RefsFiles :
          sourceFiles = [f \in FileNames |-> IF f = "cmp.tsx" THEN file ELSE PlainFile]
    /\ CachesInit

NextRefs ==
    \E position \in RefsPositions :
        \E prior \in HostReferences("cmp.tsx", position) :
            findReferences("cmp.tsx", position, prior)

SpecRefs == InitRefs /\ [][NextRefs]_vars

(***************************************************************************)
(* findRenameLocations on source texts put together from member            *)
(* declarations.                                                           *)
(***************************************************************************)
\* a member declaration: its text and its node
\*   @Watch('name') nameChanged() {}
WatchChanged ==
    [ text |->
        << " ", "@", "W", "a", "t", "c", "h", "(", "'", "n", "a", "m", "e",
           "'", ")", " ", "n", "a", "m", "e", "C", "h", "a", "n", "g", "e",
           "d", "(", ")", " ", "{", "}" >>,
      member |-> Method("nameChanged", << Call("Watch", << StringLiteral("name") >>) >>) ]

\* a member declaration: its text and its node
\*   @Watch('name') 'onKey'() {}
WatchQuoted ==
    [ text |->
        << " ", "@", "W", "a", "t", "c", "h", "(", "'", "n", "a", "m", "e",
           "'", ")", " ", "'", "o", "n", "K", "e", "y", "'", "(", ")", " ",
           "{", "}" >>,
      member |-> Member(StringLiteral("onKey"), "MethodDeclaration",
                        << Call("Watch", << StringLiteral("name") >>) >>) ]

RenameChunks == {WatchChanged, WatchSingle, WatchQuoted, WatchOther, FieldSingle}

RenameFiles == {RefsFile(chunks) : chunks \in SeqsUpTo(RenameChunks, MaxChunks)}

InitRename ==
    /\ \E file \in RenameFiles :
          sourceFiles = [f \in FileNames |-> IF f = "cmp.tsx" THEN file ELSE PlainFile]
    /\ CachesInit

NextRename ==
    \E position \in RefsPositions, findInStrings \in BOOLEAN :
        \E prior \in HostRenames("cmp.tsx", position) :
            findRenameLocations("cmp.tsx", position, findInStrings, prior)

SpecRename == InitRename /\ [][NextRename]_vars

(***************************************************************************)
(* checkType and the type predicates, lines 3-33, on bounded types.        *)
(***************************************************************************)
\* a ts.Type: its flags, a set of bits, and for a union its member types
Type(flags, types) == [flags |-> flags, types |-> types]

\* the masks of lines 15, 22 and 29; BooleanLike, NumberLike and StringLike
\* are the unions of bits TypeScript defines them as
BooleanLike == {"Boolean", "BooleanLiteral"}
NumberLike == {"Number", "NumberLiteral", "Enum"}
StringLike == {"String", "StringLiteral"}

isBoolean(t) ==
    IF IsUndefined(t) THEN FALSE
    ELSE t.flags \cap ({"Boolean"} \cup BooleanLike \cup BooleanLike) # {}

isNumber(t) ==
    IF IsUndefined(t) THEN FALSE
    ELSE t.flags \cap ({"Number"} \cup NumberLike \cup {"NumberLiteral"}) # {}

isString(t) ==
    IF IsUndefined(t) THEN FALSE
    ELSE t.flags \cap ({"String"} \cup StringLike \cup {"StringLiteral"}) # {}

\* a caller's predicate: t => !!(t.flags & ts.TypeFlags.Union)
isUnion(t) == "Union" \in t.flags

\* the check parameter of line 3: the predicates a caller passes
Predicates == {"isBoolean", "isNumber", "isString", "isUnion"}

\* check(type), lines 6 and 10
Check(check, type) ==
    CASE check = "isBoolean" -> isBoolean(type)
      [] check = "isNumber" -> isNumber(type)
      [] check = "isString" -> isString(type)
      [] check = "isUnion" -> isUnion(type)

\* checkType without line 10 for a union
RECURSIVE checkTypeMembersOnly(_, _)
checkTypeMembersOnly(type, check) ==
    IF "Union" \in type.flags
    THEN \E i \in DOMAIN type.types : checkTypeMembersOnly(type.types[i], check)
    ELSE Check(check, type)

RECURSIVE checkType(_, _)
checkType(type, check) ==
    IF /\ "Union" \in type.flags
       /\ \E i \in DOMAIN type.types : checkType(type.types[i], check)
    THEN TRUE
    ELSE Check(check, type)

MaxTypes == 2

\* string, 1, true, undefined
PlainTypes ==
    { Type({flag}, <<>>) : flag \in {"String", "NumberLiteral", "BooleanLiteral", "Undefined"} }

\* a union of the member types; the union true | false is boolean and has
\* the Boolean bit as well
UnionType(types) ==
    Type({"Union"} \cup
             (IF \A i \in DOMAIN types : types[i].flags = {"BooleanLiteral"}
              THEN {"Boolean"} ELSE {}),
         types)

\* the member lists of unions: a union has two members at least
MemberLists(types) == {members \in SeqsUpTo(types, MaxTypes) : Len(members) > 1}

FlatUnions == {UnionType(types) : types \in MemberLists(PlainTypes)}

NestedUnions == {UnionType(types) : types \in MemberLists(PlainTypes \cup FlatUnions)}

Types == PlainTypes \cup NestedUnions

\* a type and a predicate checkType is to be called with
InitType ==
    /\ sourceFiles = [f \in FileNames |-> PlainFile]
    /\ CachesEmpty
    /\ \E type \in Types, check \in Predicates :
          last = [op |-> "request", type |-> type, check |-> check]

CheckType ==
    /\ last.op = "request"
    /\ last' = [ op |-> "checkType", type |-> last.type, check |-> last.check,
                 result |-> checkType(last.type, last.check) ]
    /\ UNCHANGED << sourceFiles, caches, served >>

NextType == CheckType

SpecType == InitType /\ [][NextType]_vars

(***************************************************************************)
(* The caches.                                                             *)
(***************************************************************************)
IsDetailRequest(outcome) == outcome.op = "getCompletionEntryDetails"

IsQuickInfoRequest(outcome) == outcome.op = "getQuickInfoAtPosition"

\* C1: every entry the detail cache holds was computed for the (file, position)
\* pair the cache is scoped to, and a detail request never returns a result
\* that was computed for another pair than the one it asks about.
C1_DetailCacheScoped ==
    /\ \A name \in DOMAIN cachedCompletionEntryDetails :
          /\ cachedCompletionEntryDetails[name].request[1] = cachedCompletionEntryDetailsFileName
          /\ cachedCompletionEntryDetails[name].request[2] = cachedCompletionEntryDetailsPosition
    /\ (IsDetailRequest(last) /\ last.outcome = "returned") =>
          /\ last.result.request[1] = last.fileName
          /\ last.result.request[2] = last.position

\* a detail request for a new pair has just evicted the entries of the pair before
C1_Witness ==
    /\ IsDetailRequest(last)
    /\ last.outcome = "returned"
    /\ served.evicted # {}
    /\ DOMAIN cachedCompletionEntryDetails = {last.name}
    /\ cachedCompletionEntryDetailsFileName = last.fileName
    /\ cachedCompletionEntryDetailsPosition = last.position

\* C2: a detail request for a (file, position, name) that has returned a result,
\* with no detail request for another (file, position) pair since, returns that
\* stored result and calls neither the host nor the extractor.
C2_RepeatedDetailServedFromCache ==
    [][ ( /\ IsDetailRequest(last')
          /\ served.fileName = last'.fileName
          /\ served.position = last'.position
          /\ MapHas(served.results, last'.name) )
        => ( /\ last'.outcome = "returned"
             /\ last'.result = served.results[last'.name]
             /\ last'.hostCalls = {}
             /\ ~last'.extracted ) ]_vars

\* a repeated detail request has been answered from the cache
C2_Witness ==
    /\ IsDetailRequest(last)
    /\ last.outcome = "returned"
    /\ last.hostCalls = {}
    /\ ~last.extracted
    /\ MapHas(served.results, last.name)
    /\ last.result = served.results[last.name]

\* the key of the node a quick-info request locates
QuickInfoKey(outcome) ==
    cacheId(outcome.fileName, findNode(sourceFiles[outcome.fileName], outcome.position))

QuickInfoLocated(outcome) ==
    ~IsUndefined(findNode(sourceFiles[outcome.fileName], outcome.position))

\* C3: no step of any operation removes or replaces a quick-info entry, and a
\* quick-info request whose node has a stored key returns the stored result
\* without calling the host.
C3_QuickInfoKept ==
    [][ /\ \A key \in DOMAIN cachedQuickInfo :
              /\ MapHas(cachedQuickInfo', key)
              /\ cachedQuickInfo'[key] = cachedQuickInfo[key]
        /\ ( /\ IsQuickInfoRequest(last')
             /\ QuickInfoLocated(last')
             /\ MapHas(cachedQuickInfo, QuickInfoKey(last')) )
           => ( /\ last'.outcome = "returned"
                /\ last'.result = cachedQuickInfo[QuickInfoKey(last')]
                /\ last'.hostCalls = {} ) ]_vars

\* a quick-info request at another offset of a node whose entry survived a
\* clear of the detail cache has been answered from the cache
C3_Witness ==
    /\ IsQuickInfoRequest(last)
    /\ last.outcome = "returned"
    /\ last.hostCalls = {}
    /\ last.position = 33
    /\ ~IsUndefined(last.result)
    /\ last.result.request[2] = 31
    /\ served.evicted # {}
    /\ Cardinality(DOMAIN cachedQuickInfo) > 1

\* C5: a detail request that asked the host about a name no bucket holds, and
\* got an entry of kind property or method, returns the host's entry as it is.
C5_UnmatchedDetailReturnedRaw ==
    ( /\ IsDetailRequest(last)
      /\ last.hostCalls # {}
      /\ ~IsUndefined(last.prior)
      /\ DetailAdjusted(last.prior)
      /\ ~gatherDocumentMetaThrows(sourceFiles[last.fileName])
      /\ IsUndefined(getCategory(gatherDocumentMeta(sourceFiles[last.fileName]), last.name)) )
    => ( last.outcome = "returned" /\ last.result = last.prior )

(***************************************************************************)
(* The extractor and the category lookup.                                  *)
(***************************************************************************)
IsExtraction(outcome) == outcome.op = "gatherDocumentMeta"

\* a bucket entry that is a member name, not the `false` or `undefined` toName
\* gives for a member without an identifier name
IsName(x) == x \notin {JsFalse, JsUndefined}

RoleBuckets ==
    { "internalProperties", "internalMethods", "elements", "states", "props",
      "propsConnect", "propsContext", "methods", "lifecycle" }

\* C4: in an extracted model no member name is in more than one of the nine
\* role buckets, whatever annotations its member carries.
C4_BucketsDisjoint ==
    (IsExtraction(last) /\ last.outcome = "returned") =>
        \A b1 \in RoleBuckets : \A b2 \in RoleBuckets \ {b1} :
            \A i \in DOMAIN last.result[b1] :
                IsName(last.result[b1][i]) => ~Includes(last.result[b2], last.result[b1][i])

RoleAnnotations == {"Element", "State", "Prop", "Watch", "Event", "Listen", "Method"}

RoleCategory(annotation) ==
    CASE annotation = "Element" -> "element"
      [] annotation = "State" -> "state"
      [] annotation = "Prop" -> "prop"
      [] annotation = "Watch" -> "watch"
      [] annotation = "Event" -> "event"
      [] annotation = "Listen" -> "listen"
      [] annotation = "Method" -> "method"

\* the role annotations a member carries, by their place among its decorators
RolesOf(member) ==
    {i \in DOMAIN member.decorators : member.decorators[i].callee \in RoleAnnotations}

\* C8: for every member of a component class with exactly one role annotation,
\* the extractor yields a model in which the category lookup of the member's
\* name gives the category of that role.
C8_SingleRoleLookedUp ==
    IsExtraction(last) =>
        \A c \in DOMAIN sourceFiles[last.fileName].classes :
            LET class == sourceFiles[last.fileName].classes[c]
            IN  isComponentClass(class) =>
                  \A m \in DOMAIN class.members :
                      LET member == class.members[m]
                      IN  Cardinality(RolesOf(member)) = 1 =>
                            /\ last.outcome = "returned"
                            /\ ~IsUndefined(getCategory(last.result, member.name.text))
                            /\ getCategory(last.result, member.name.text).category =
                                  RoleCategory(member.decorators[
                                      CHOOSE i \in RolesOf(member) : TRUE].callee)

\* a Watch or Listen annotation without a string literal as its first argument
Malformed(decorator) ==
    /\ decorator.callee \in {"Watch", "Listen"}
    /\ \/ decorator.arguments = <<>>
       \/ decorator.arguments[1].kind # "StringLiteral"

HasMalformed(sourceFile) ==
    \E c \in DOMAIN sourceFile.classes :
        /\ isComponentClass(sourceFile.classes[c])
        /\ \E m \in DOMAIN sourceFile.classes[c].members :
              \E d \in DOMAIN sourceFile.classes[c].members[m].decorators :
                  Malformed(sourceFile.classes[c].members[m].decorators[d])

\* C9: on a tree with a Watch or Listen annotation that has no string-literal
\* first argument the extractor returns a model, and the model has no watched
\* entry and no listened event that is not a string.
C9_MalformedAnnotationSkipped ==
    (IsExtraction(last) /\ HasMalformed(sourceFiles[last.fileName])) =>
        /\ last.outcome = "returned"
        /\ \A i \in DOMAIN last.result.watched : IsName(last.result.watched[i].prop)
        /\ \A i \in DOMAIN last.result.listeners :
              \A j \in DOMAIN last.result.listeners[i].events :
                  IsName(last.result.listeners[i].events[j])

\* the names of the members without annotation of the component classes, in
\* the order of their declaration, that are of one of the kinds and for which
\* the test of the name holds; a member without an identifier name has none
UnannotatedNames(sourceFile, kinds, Test(_)) ==
    LET members == Flatten([c \in DOMAIN sourceFile.classes |->
                       IF isComponentClass(sourceFile.classes[c])
                       THEN sourceFile.classes[c].members ELSE <<>>])
        chosen == SelectSeq(members, LAMBDA member :
                       /\ member.decorators = <<>>
                       /\ member.name.kind = "Identifier"
                       /\ member.kind \in kinds
                       /\ Test(member.name.text))
    IN  [i \in DOMAIN chosen |-> chosen[i].name.text]

IsBuiltin(name) == Includes(ComponentBuiltinMethods, name)

IsLifecycle(name) == ~IsBuiltin(name) /\ Includes(ComponentLifecycleMethods, name)

IsOther(name) == ~IsBuiltin(name) /\ ~Includes(ComponentLifecycleMethods, name)

MemberKinds == {"PropertyDeclaration", "MethodDeclaration", "GetAccessor", "Constructor"}

\* C14: in a model the extractor returns, of the members without annotation,
\* those named render or hostData are in no bucket, lifecycle has the names
\* of those with a lifecycle name in the order of declaration,
\* internalProperties has the names of the remaining fields and
\* internalMethods the names of the remaining methods.
C14_UnannotatedMembersPlaced ==
    (IsExtraction(last) /\ last.outcome = "returned") =>
        LET sourceFile == sourceFiles[last.fileName]
        IN  /\ last.result.lifecycle = UnannotatedNames(sourceFile, MemberKinds, IsLifecycle)
            /\ last.result.internalProperties
                  = UnannotatedNames(sourceFile, {"PropertyDeclaration"}, IsOther)
            /\ last.result.internalMethods
                  = UnannotatedNames(sourceFile, {"MethodDeclaration"}, IsOther)

\* the Listen annotations of a member, in their order
ListenAnnotations(member) ==
    SelectSeq(member.decorators, LAMBDA decorator : IsCallOf(decorator, "Listen"))

\* a member with Listen annotations, each with a string literal for the event
IsListener(member) ==
    /\ ListenAnnotations(member) # <<>>
    /\ \A d \in DOMAIN ListenAnnotations(member) : ~Malformed(ListenAnnotations(member)[d])

\* the members of the component classes that have a Listen annotation, in the
\* order of their declaration
ListenMembers(sourceFile) ==
    SelectSeq(Flatten([c \in DOMAIN sourceFile.classes |->
                  IF isComponentClass(sourceFile.classes[c])
                  THEN sourceFile.classes[c].members ELSE <<>>]),
              LAMBDA member : ListenAnnotations(member) # <<>>)

HasListener(sourceFile) ==
    \E m \in DOMAIN ListenMembers(sourceFile) : IsListener(ListenMembers(sourceFile)[m])

\* C15: on a tree with a handler that has Listen annotations, each with a
\* string literal, the extractor returns a model with one listeners entry
\* for each member that has Listen annotations, and the entry of such a
\* handler has the handler's name and the events of its annotations in their
\* order.
C15_ListenersMerged ==
    (IsExtraction(last) /\ HasListener(sourceFiles[last.fileName])) =>
        LET members == ListenMembers(sourceFiles[last.fileName])
        IN  /\ last.outcome = "returned"
            /\ Len(last.result.listeners) = Len(members)
            /\ \A m \in DOMAIN members :
                  IsListener(members[m]) =>
                      last.result.listeners[m] =
                          [ events |-> [d \in DOMAIN ListenAnnotations(members[m]) |->
                                           ListenAnnotations(members[m])[d].arguments[1].text],
                            handler |-> members[m].name.text ]

(***************************************************************************)
(* Sort keys and suggestions.                                              *)
(***************************************************************************)
\* the order the sort keys are to give: by place of the category in the
\* canonical list, then by phase for lifecycle methods and by name otherwise
SortsBefore(a, b) ==
    LET ia == ArrayIndexOf(categories, a.category)
        ib == ArrayIndexOf(categories, b.category)
    IN  \/ ia < ib
        \/ /\ ia = ib
           /\ IF a.category = "lifecycle"
              THEN ArrayIndexOf(ComponentLifecycleMethods, a.name)
                     < ArrayIndexOf(ComponentLifecycleMethods, b.name)
              ELSE StringLess(Chars(a.name), Chars(b.name))

\* C7: the sort key of one entry is less than that of another, as strings
\* compare, exactly if its category is earlier in the canonical list, or the
\* categories are equal and its lifecycle phase is earlier (lifecycle) or its
\* name is less by string comparison (any other category).
C7_SortKeysOrder ==
    last.op = "getSortText" =>
        (StringLess(last.keyA, last.keyB) <=> SortsBefore(last.a, last.b))

\* componentWillLoad sorts before componentDidLoad, against the alphabet
C7_Witness ==
    /\ last.op = "getSortText"
    /\ last.a = [category |-> "lifecycle", name |-> "componentWillLoad"]
    /\ last.b = [category |-> "lifecycle", name |-> "componentDidLoad"]
    /\ StringLess(last.keyA, last.keyB)
    /\ StringLess(Chars(last.b.name), Chars(last.a.name))

\* the entries the adjustment is to give: the host's without the builtin
\* methods, the matched ones with their sort key
AdjustedEntry(meta, entry) ==
    IF IsUndefined(getCategory(meta, entry.name)) THEN entry
    ELSE [entry EXCEPT !.sortText = getSortText(getCategory(meta, entry.name).category, entry.name)]

RECURSIVE AdjustedEntries(_, _)
AdjustedEntries(meta, entries) ==
    IF entries = <<>> THEN <<>>
    ELSE IF Head(entries).kind = "method" /\ Head(entries).name \in {"render", "hostData"}
    THEN AdjustedEntries(meta, Tail(entries))
    ELSE << AdjustedEntry(meta, Head(entries)) >> \o AdjustedEntries(meta, Tail(entries))

\* C6: a completion request that the host answers with a member list, made
\* outside the arguments of a decorator, returns the host's list with the
\* entries filtered and given their sort keys.
C6_MemberListAdjusted ==
    ( /\ last.op = "getCompletionsAtPosition"
      /\ isMemberList(last.prior)
      /\ ~insideDecoratorCall(sourceFiles[last.fileName],
                              findNode(sourceFiles[last.fileName], last.position)) )
    => /\ last.outcome = "returned"
       /\ last.result =
            [last.prior EXCEPT !.entries =
                AdjustedEntries(visitAll(EmptyMeta, sourceFiles[last.fileName].classes), @)]

(***************************************************************************)
(* References.                                                             *)
(***************************************************************************)
\* the offsets at which the name stands in quotes of either style
QuotedAt(sourceText, text) ==
    {i \in 0..(Len(sourceText) - Len(Chars(text)) - 2) :
        \E quote \in {"\"", "'"} :
            SubSeq(sourceText, i + 1, i + Len(Chars(text)) + 2)
                = << quote >> \o Chars(text) \o << quote >>}

\* the name under the cursor is the observed property of a watched entry
AsksWatched(outcome) ==
    LET sourceFile == sourceFiles[outcome.fileName]
        node == findNode(sourceFile, outcome.position)
    IN  /\ ~IsUndefined(node)
        /\ IsName(nodeText(node))
        /\ \E c \in DOMAIN sourceFile.classes :
              /\ isComponentClass(sourceFile.classes[c])
              /\ \E m \in DOMAIN sourceFile.classes[c].members :
                    \E d \in DOMAIN sourceFile.classes[c].members[m].decorators :
                        sourceFile.classes[c].members[m].decorators[d]
                            = Call("Watch", << StringLiteral(nodeText(node)) >>)

\* C10: a references request that the host answers with the references of a
\* symbol returns, on a watched name that stands in quotes somewhere, the
\* host's list and one record more, for the name inside the first quoted
\* occurrence of either style; any other such request returns the host's list.
C10_ReferenceAtFirstQuoted ==
    ( /\ last.op = "findReferences"
      /\ ~IsUndefined(last.prior)
      /\ last.prior.symbols # <<>> ) =>
        LET sourceFile == sourceFiles[last.fileName]
            text == nodeText(findNode(sourceFile, last.position))
        IN  IF AsksWatched(last) /\ QuotedAt(sourceFile.text, text) # {}
            THEN LET first == CHOOSE i \in QuotedAt(sourceFile.text, text) :
                                 \A j \in QuotedAt(sourceFile.text, text) : i <= j
                 IN  /\ last.outcome = "returned"
                     /\ ~IsUndefined(last.result)
                     /\ Len(last.result.symbols) = Len(last.prior.symbols) + 1
                     /\ SubSeq(last.result.symbols, 1, Len(last.prior.symbols))
                           = last.prior.symbols
                     /\ last.result.symbols[Len(last.result.symbols)].references
                           = << [ textSpan |-> [start |-> first + 1,
                                                length |-> Len(Chars(text))],
                                  fileName |-> last.fileName,
                                  isDefinition |-> FALSE,
                                  isWriteAccess |-> TRUE,
                                  isInString |-> TRUE ] >>
            ELSE last.outcome = "returned" /\ last.result = last.prior

(***************************************************************************)
(* Renames.                                                                *)
(***************************************************************************)
\* the handler name, as written, of the first member that watches the name
\* under the cursor
WatcherName(outcome) ==
    LET sourceFile == sourceFiles[outcome.fileName]
        text == nodeText(findNode(sourceFile, outcome.position))
        members == Flatten([c \in DOMAIN sourceFile.classes |->
                       IF isComponentClass(sourceFile.classes[c])
                       THEN sourceFile.classes[c].members ELSE <<>>])
        watchers == SelectSeq(members, LAMBDA member :
                       \E d \in DOMAIN member.decorators :
                           member.decorators[d] = Call("Watch", << StringLiteral(text) >>))
    IN  Head(watchers).name.text

\* C11: a rename request on a watched name, in a document whose model was
\* extracted and for which the host has locations, calls the host with the
\* search in strings enabled and returns the host's locations, with one
\* location more if the name is a substring of the handler's name: of the
\* name's length, at the offset of the name inside an occurrence of the
\* handler's name in the text; if the name is not a substring of the
\* handler's name, the host's locations are returned as they are.
C11_RenameReachesHandler ==
    (/\ last.op = "findRenameLocations"
     /\ AsksWatched(last)
     /\ last.hostCalls # {}
     /\ ~IsUndefined(last.prior)) =>
        LET sourceText == sourceFiles[last.fileName].text
            text == nodeText(findNode(sourceFiles[last.fileName], last.position))
            handler == Chars(WatcherName(last))
            index == StringIndexOf(handler, Chars(text))
        IN  /\ last.outcome = "returned"
            /\ last.hostCalls = {"findRenameLocations(findInStrings)"}
            /\ IF index > -1
               THEN /\ ~IsUndefined(last.result)
                    /\ ~IsUndefined(last.prior)
                    /\ Len(last.result.locations) = Len(last.prior.locations) + 1
                    /\ SubSeq(last.result.locations, 1, Len(last.prior.locations))
                          = last.prior.locations
                    /\ LET added == last.result.locations[Len(last.result.locations)]
                       IN  /\ added.fileName = last.fileName
                           /\ added.textSpan.length = Len(Chars(text))
                           /\ added.textSpan.start - index >= 0
                           /\ SubSeq(sourceText, added.textSpan.start - index + 1,
                                     added.textSpan.start - index + Len(handler))
                                 = handler
               ELSE last.result = last.prior

(***************************************************************************)
(* Errors.                                                                 *)
(***************************************************************************)
InterceptedOperations ==
    { "getCompletionEntryDetails", "getQuickInfoAtPosition", "findReferences",
      "findRenameLocations", "getCompletionsAtPosition" }

\* C12: none of the five operations raises an error: each request returns,
\* and a request for which no node is found or for which the host, once
\* asked, has no answer returns the host's answer as it is.
C12_NoOperationRaises ==
    last.op \in InterceptedOperations =>
        /\ last.outcome = "returned"
        /\ ( /\ last.hostCalls # {}
             /\ \/ IsUndefined(last.prior)
                \/ IsUndefined(findNode(sourceFiles[last.fileName], last.position)) )
           => last.result = last.prior

(***************************************************************************)
(* Unions.                                                                 *)
(***************************************************************************)
\* the member types of a union, the members of its member unions in their
\* place
RECURSIVE FlattenedMembers(_)
FlattenedMembers(type) ==
    IF "Union" \in type.flags
    THEN UNION {FlattenedMembers(type.types[i]) : i \in DOMAIN type.types}
    ELSE {type}

\* a type, its member types, and the member types of these
RECURSIVE TypesWithin(_)
TypesWithin(type) ==
    {type} \cup
        (IF "Union" \in type.flags
         THEN UNION {TypesWithin(type.types[i]) : i \in DOMAIN type.types}
         ELSE {})

\* C13: checkType of a union is true exactly if the predicate is true of at
\* least one member of the flattened union, of the union itself or of a
\* union nested in it; checkType of another type is the predicate of the
\* type.
C13_AnyOfUnionOrItself ==
    last.op = "checkType" =>
        IF "Union" \in last.type.flags
        THEN last.result = (\E type \in TypesWithin(last.type) : Check(last.check, type))
        ELSE last.result = Check(last.check, last.type)

\* checkType was true of a union for a predicate that is true of none of its
\* flattened members
C13_Witness ==
    /\ last.op = "checkType"
    /\ "Union" \in last.type.flags
    /\ last.result
    /\ \A member \in FlattenedMembers(last.type) : ~Check(last.check, member)

\* C13 as stated: checkType of a union is true exactly if the predicate is
\* true of at least one member of the flattened union; checkType of another
\* type is the predicate of the type.
C13_AnyOfFlattenedUnion ==
    last.op = "checkType" =>
        IF "Union" \in last.type.flags
        THEN last.result = (\E member \in FlattenedMembers(last.type) :
                                Check(last.check, member))
        ELSE last.result = Check(last.check, last.type)

(***************************************************************************)
(* The buckets that are never filled.                                      *)
(***************************************************************************)
\* the names a lookup is made for: those of the members of the trees
LookupNames == MetaNames \cup SortNames \cup {"count", "changed", "load"}

\* the letters of prop:connect and prop:context in a sort key
UnusedLetters ==
    { letters[ArrayIndexOf(categories, category) + 1] :
        category \in {"prop:connect", "prop:context"} }

\* C17: in a model the extractor returns propsConnect and propsContext are
\* empty, the lookup of a name in it gives neither prop:connect nor
\* prop:context, and a suggestion sorted with it gets no sort key that starts
\* with the letter of one of the two.
C17_ConnectAndContextEmpty ==
    (IsExtraction(last) /\ last.outcome = "returned") =>
        /\ last.result.propsConnect = <<>>
        /\ last.result.propsContext = <<>>
        /\ \A name \in LookupNames :
              /\ \/ IsUndefined(getCategory(last.result, name))
                 \/ getCategory(last.result, name).category
                       \notin {"prop:connect", "prop:context"}
              /\ \A kind \in {"property", "method"} :
                    sortEntry(last.result, Entry(name, kind)).sortText[1]
                        \notin UnusedLetters

\* a model was returned with a member in props, and a suggestion of its name
\* gets the sort key of a prop
C17_Witness ==
    /\ IsExtraction(last)
    /\ last.outcome = "returned"
    /\ last.result.props # <<>>
    /\ IsName(last.result.props[1])
    /\ getCategory(last.result, last.result.props[1]).category = "prop"
    /\ sortEntry(last.result, Entry(last.result.props[1], "property")).sortText[1]
          = letters[ArrayIndexOf(categories, "prop") + 1]

=============================================================================
